---- MODULE Spec2Model ----
(***************************************************************************)
(* cpuline: the sampling loop of src/main.rs (four-field CPU counters,     *)
(* tick-rate normalisation, glyph selection) and the counter library of    *)
(* src/cpu.rs (ten-field CPU counters, derived time sums).                 *)
(*                                                                         *)
(* Text is a sequence of one-character strings.  Option<T> is a sequence   *)
(* of length 0 (None) or 1 (Some).  A computation that may panic yields a  *)
(* record [panic, val]; val is meaningful only when panic is FALSE.        *)
(*                                                                         *)
(* u64/usize are modelled with a scaled-down word of WordBits bits: every  *)
(* arithmetic result is reduced modulo 2^WordBits, and an overflow either  *)
(* panics (overflow checks on, the debug profile) or wraps (checks off,    *)
(* the release profile).                                                   *)
(***************************************************************************)
EXTENDS Integers, Sequences, FiniteSets, TLC

\* ------------------------------------------------------------------ bounds
WordBits == 12
MaxTicks == 4

\* --------------------------------------------------------------- integers
RECURSIVE Pow2(_)
Pow2(n) == IF n = 0 THEN 1 ELSE 2 * Pow2(n - 1)

Modulus == Pow2(WordBits)
U64Max == Modulus - 1
USizeMax == Modulus - 1

Res(p, v) == [panic |-> p, val |-> v]

\* a - b on u64: underflow panics under overflow checks, wraps otherwise
SubU64(a, b, checks) == Res(checks /\ a < b, (a - b + Modulus) % Modulus)

\* a + b on u64: overflow panics under overflow checks, wraps otherwise
AddU64(a, b, checks) == Res(checks /\ a + b > U64Max, (a + b) % Modulus)

\* a * b on u64
MulU64(a, b, checks) == Res(checks /\ a * b > U64Max, (a * b) % Modulus)

RECURSIVE Gcd(_, _)
Gcd(a, b) == IF b = 0 THEN a ELSE Gcd(b, a % b)

\* ------------------------------------------------------------------- text
Digits == <<"0", "1", "2", "3", "4", "5", "6", "7", "8", "9">>

IsDigit(c) == \E i \in 1..10 : Digits[i] = c
DigitVal(c) == (CHOOSE i \in 1..10 : Digits[i] = c) - 1
IsWhitespace(c) == c \in {" ", "\t"}

\* the decimal text of a number, as the kernel prints a counter
RECURSIVE Dec(_)
Dec(n) == IF n < 10 THEN <<Digits[n + 1]>> ELSE Dec(n \div 10) \o <<Digits[(n % 10) + 1]>>

\* str::starts_with
StartsWith(s, p) == Len(s) >= Len(p) /\ SubSeq(s, 1, Len(p)) = p

\* &line[k..]: the text after the first k characters
SliceFrom(s, k) == SubSeq(s, k + 1, Len(s))

\* str::find(' '): the 0-based position of the first space, as an Option
FindSpace(s) ==
    IF \E i \in 1..Len(s) : s[i] = " "
    THEN <<(CHOOSE i \in 1..Len(s) : s[i] = " " /\ \A j \in 1..(i - 1) : s[j] # " ") - 1>>
    ELSE <<>>

\* str::split_whitespace, collected
RECURSIVE SplitWs(_, _, _)
SplitWs(s, cur, acc) ==
    IF s = <<>> THEN (IF cur = <<>> THEN acc ELSE Append(acc, cur))
    ELSE IF IsWhitespace(Head(s))
         THEN SplitWs(Tail(s), <<>>, IF cur = <<>> THEN acc ELSE Append(acc, cur))
         ELSE SplitWs(Tail(s), Append(cur, Head(s)), acc)

split_whitespace(s) == SplitWs(s, <<>>, <<>>)

\* str::trim
RECURSIVE TrimStart(_)
TrimStart(s) == IF s # <<>> /\ IsWhitespace(Head(s)) THEN TrimStart(Tail(s)) ELSE s
RECURSIVE TrimEnd(_)
TrimEnd(s) == IF s # <<>> /\ IsWhitespace(s[Len(s)]) THEN TrimEnd(SubSeq(s, 1, Len(s) - 1)) ELSE s
trim(s) == TrimEnd(TrimStart(s))

\* the value of a digit string, saturated just above U64Max
RECURSIVE DecValue(_, _)
DecValue(s, acc) ==
    IF s = <<>> THEN acc
    ELSE LET next == acc * 10 + DigitVal(Head(s))
         IN DecValue(Tail(s), IF next > U64Max THEN U64Max + 1 ELSE next)

\* str::parse::<u64>().ok(): an optional '+', then one or more digits, the
\* value within u64
parse_u64(s) ==
    LET body == IF s # <<>> /\ Head(s) = "+" THEN Tail(s) ELSE s
    IN IF body = <<>> \/ \E i \in 1..Len(body) : ~IsDigit(body[i]) THEN <<>>
       ELSE IF DecValue(body, 0) > U64Max THEN <<>>
       ELSE <<DecValue(body, 0)>>

\* fn parse(s: Option<&str>) -> u64 of CPU::from_line, before its expect()
parse(tok, i) == IF i > Len(tok) THEN <<>> ELSE parse_u64(trim(tok[i]))

ValOf(o) == IF o = <<>> THEN 0 ELSE o[1]

\* ------------------------------------------------- the kernel's /proc/stat
\* A counter table as the kernel holds it: total is an Option of a ten-field
\* row, cores maps each online core index to its ten-field row (user, nice,
\* system, idle, iowait, irq, softirq, steal, guest, guest_nice).
RECURSIVE JoinFields(_)
JoinFields(fs) ==
    IF fs = <<>> THEN <<>>
    ELSE IF Len(fs) = 1 THEN Dec(fs[1])
    ELSE Dec(fs[1]) \o <<" ">> \o JoinFields(Tail(fs))

CpuMarker == <<"c", "p", "u">>

\* "cpu  f1 f2 ... f10": the aggregate line, two spaces after the marker
TotalLine(fs) == CpuMarker \o <<" ", " ">> \o JoinFields(fs)

\* "cpuN f1 f2 ... f10": a per-core line
CoreLine(n, fs) == CpuMarker \o Dec(n) \o <<" ">> \o JoinFields(fs)

\* "intr 7": a line of the table that is no cpu line
IntrLine == <<"i", "n", "t", "r", " ", "7">>

RECURSIVE SortedKeys(_)
SortedKeys(S) ==
    IF S = {} THEN <<>>
    ELSE LET m == CHOOSE x \in S : \A y \in S : x <= y
         IN <<m>> \o SortedKeys(S \ {m})

RECURSIVE CoreLines(_, _)
CoreLines(keys, cores) ==
    IF keys = <<>> THEN <<>>
    ELSE <<CoreLine(Head(keys), cores[Head(keys)])>> \o CoreLines(Tail(keys), cores)

\* the text of the table, one line per element
ProcStatText(table) ==
    (IF table.total = <<>> THEN <<>> ELSE <<TotalLine(table.total[1])>>)
    \o CoreLines(SortedKeys(DOMAIN table.cores), table.cores)
    \o <<IntrLine>>

\* a ten-field row from its first four fields; the other six grow with them
Row(u, n, s, i) == <<u, n, s, i, i \div 4, s \div 2, n, u \div 4, u \div 2, n>>

\* the tables the sampling loop is run against: counters that grow, a core
\* that goes offline (cpu1 in the third), and counters that restart from a
\* lower value (any table read after a later one)
KernelTables ==
    { [total |-> <<Row(4, 0, 2, 9)>>,
       cores |-> (0 :> Row(2, 0, 1, 5)) @@ (1 :> Row(2, 0, 1, 4))],
      [total |-> <<Row(7, 1, 3, 12)>>,
       cores |-> (0 :> Row(3, 1, 1, 7)) @@ (1 :> Row(4, 0, 2, 5))],
      [total |-> <<Row(9, 1, 4, 15)>>,
       cores |-> (0 :> Row(5, 1, 2, 9)) @@ (2 :> Row(1, 0, 0, 2))],
      [total |-> <<Row(25, 3, 6, 20)>>,
       cores |-> (0 :> Row(12, 2, 3, 11)) @@ (1 :> Row(13, 1, 3, 9))] }

\* ------------------------------------------------------------- src/main.rs
OFFSET == 3

\* CPU::from_line of main.rs: the first four tokens of the text it is given
from_line(line) ==
    LET tok == split_whitespace(line)
    IN Res(\E i \in 1..4 : parse(tok, i) = <<>>,
           [user |-> ValOf(parse(tok, 1)),
            nice |-> ValOf(parse(tok, 2)),
            system |-> ValOf(parse(tok, 3)),
            idle |-> ValOf(parse(tok, 4))])

\* the loop body of Stat::read of main.rs for one line, on the Stat so far
ReadLine(st, line) ==
    IF st.panic THEN st
    ELSE IF StartsWith(line, CpuMarker \o <<" ">>)
    THEN LET c == from_line(SliceFrom(line, OFFSET))
         IN Res(c.panic, [st.val EXCEPT !.total = <<c.val>>])
    ELSE IF StartsWith(line, CpuMarker)
    THEN LET rest == SliceFrom(line, OFFSET)
             tok == split_whitespace(rest)
             num == IF tok = <<>> THEN <<>> ELSE parse_u64(trim(tok[1]))
             c == from_line(rest)
         IN Res(num = <<>> \/ c.panic,
                [st.val EXCEPT !.cores =
                    [k \in DOMAIN st.val.cores \cup {ValOf(num)} |->
                        IF k = ValOf(num) THEN c.val ELSE st.val.cores[k]]])
    ELSE st

RECURSIVE ReadLines(_, _)
ReadLines(st, lines) ==
    IF lines = <<>> THEN st ELSE ReadLines(ReadLine(st, Head(lines)), Tail(lines))

\* Stat::read of main.rs on a table that could be opened, at instant t
read(text, t) ==
    ReadLines(Res(FALSE, [time |-> t, total |-> <<>>, cores |-> <<>>]), text)

\* CPU::diff of main.rs: four unguarded u64 subtractions
diff(self, other, checks) ==
    LET u == SubU64(self.user, other.user, checks)
        n == SubU64(self.nice, other.nice, checks)
        s == SubU64(self.system, other.system, checks)
        i == SubU64(self.idle, other.idle, checks)
    IN Res(u.panic \/ n.panic \/ s.panic \/ i.panic,
           [user |-> u.val, nice |-> n.val, system |-> s.val, idle |-> i.val])

NanosPerSec == 1000000000

\* Instant + Duration (the clock of the environment)
InstantAdd(t, d) ==
    [secs |-> t.secs + d.secs + ((t.nanos + d.nanos) \div NanosPerSec),
     nanos |-> (t.nanos + d.nanos) % NanosPerSec]

\* Instant::duration_since, for earlier <= self
duration_since(self, earlier) ==
    IF self.nanos >= earlier.nanos
    THEN [secs |-> self.secs - earlier.secs, nanos |-> self.nanos - earlier.nanos]
    ELSE [secs |-> self.secs - earlier.secs - 1,
          nanos |-> self.nanos + NanosPerSec - earlier.nanos]

\* the cores of Stat::load_since: the cores of self, in ascending order, that
\* earlier holds too, each diffed against earlier's
CommonCores(self, earlier) == {k \in DOMAIN self.cores : k \in DOMAIN earlier.cores}

\* Stat::load_since of main.rs
load_since(self, earlier, checks) ==
    LET both == self.total # <<>> /\ earlier.total # <<>>
        t == IF both THEN diff(self.total[1], earlier.total[1], checks)
             ELSE Res(FALSE, <<>>)
        ks == CommonCores(self, earlier)
    IN Res(t.panic \/ \E k \in ks : diff(self.cores[k], earlier.cores[k], checks).panic,
           [duration |-> duration_since(self.time, earlier.time),
            total |-> IF both THEN <<t.val>> ELSE <<>>,
            cores |-> [k \in ks |-> diff(self.cores[k], earlier.cores[k], checks).val]])

\* SubsecTicks had the product been rounded to the nearest integer
SubsecTicksRounded(nanos, hz) ==
    LET g == Gcd(nanos, NanosPerSec)
    IN (2 * (nanos \div g) * hz + (NanosPerSec \div g)) \div (2 * (NanosPerSec \div g))

\* (subsec_nanos as f64 / 1E9 * user_hz as f64) as u64: the product of the
\* fraction of a second and the rate, truncated toward zero.  The fraction is
\* held exactly, in lowest terms; the durations of DurationChoices are ones
\* for which the f64 computation gives the same integer.
SubsecTicks(nanos, hz) ==
    LET g == Gcd(nanos, NanosPerSec)
    IN ((nanos \div g) * hz) \div (NanosPerSec \div g)

\* duration_ticks of main
duration_ticks(duration, hz, checks) ==
    LET whole == MulU64(duration.secs, hz, checks)
        sum == AddU64(whole.val, SubsecTicks(duration.nanos, hz) % Modulus, checks)
    IN Res(whole.panic \/ sum.panic, sum.val)

\* used as f32 / duration_ticks as f32: a finite quotient, +infinity (x/0,
\* x > 0) or NaN (0/0)
used_part(used, ticks) ==
    IF ticks # 0 THEN [kind |-> "finite", num |-> used, den |-> ticks]
    ELSE IF used # 0 THEN [kind |-> "inf", num |-> 1, den |-> 0]
    ELSE [kind |-> "nan", num |-> 0, den |-> 0]

FormatLen == 8

\* ((FORMAT.len() - 1) as f32 * used_part) as usize.  A finite product is
\* truncated (and saturates at usize::MAX).  NaN and +infinity are outside
\* usize: the cast saturates (NaN to 0, +infinity to usize::MAX) where the
\* compiler defines it, and gives the value `unspec` where it does not.
glyph_index(part, saturating, unspec) ==
    IF part.kind = "finite"
    THEN LET q == ((FormatLen - 1) * part.num) \div part.den
         IN IF q > USizeMax THEN USizeMax ELSE q
    ELSE IF ~saturating THEN unspec
    ELSE IF part.kind = "nan" THEN 0 ELSE USizeMax

\* one pass of the loop over load.cores: the glyph of one core
render_core(core, ticks, checks, saturating, unspec) ==
    LET un == AddU64(core.user, core.nice, checks)
        used == AddU64(un.val, core.system, checks)
        part == used_part(used.val, ticks)
        idx == glyph_index(part, saturating, unspec)
    IN Res(un.panic \/ used.panic \/ idx >= FormatLen,
           [used |-> used.val, ticks |-> ticks, part |-> part, index |-> idx,
            summed |-> ~(un.panic \/ used.panic)])

\* the loop over load.cores, in ascending core order; it ends at the first
\* panic, whose glyph is the last of the row
RECURSIVE render_row(_, _, _, _, _, _, _)
render_row(keys, cores, ticks, checks, saturating, unspec, acc) ==
    IF keys = <<>> THEN Res(FALSE, acc)
    ELSE LET g == render_core(cores[Head(keys)], ticks, checks, saturating, unspec)
             e == [core |-> Head(keys)] @@ g.val
         IN IF g.panic THEN Res(TRUE, Append(acc, e))
            ELSE render_row(Tail(keys), cores, ticks, checks, saturating, unspec,
                            Append(acc, e))

\* -------------------------------------------------------------- src/cpu.rs
CpuFields == {"user", "nice", "system", "idle", "iowait", "irq", "softirq",
              "steal", "guest", "guest_nice"}

\* CPU::from_line of cpu.rs: the first ten tokens of the text it is given
cpu_from_line(line) ==
    LET tok == split_whitespace(line)
    IN Res(\E i \in 1..10 : parse(tok, i) = <<>>,
           [user |-> ValOf(parse(tok, 1)),
            nice |-> ValOf(parse(tok, 2)),
            system |-> ValOf(parse(tok, 3)),
            idle |-> ValOf(parse(tok, 4)),
            iowait |-> ValOf(parse(tok, 5)),
            irq |-> ValOf(parse(tok, 6)),
            softirq |-> ValOf(parse(tok, 7)),
            steal |-> ValOf(parse(tok, 8)),
            guest |-> ValOf(parse(tok, 9)),
            guest_nice |-> ValOf(parse(tok, 10))])

\* the loop body of Stat::read of cpu.rs for one line, on the Stat so far
CpuReadLine(st, line) ==
    IF st.panic THEN st
    ELSE IF StartsWith(line, CpuMarker \o <<" ">>)
    THEN LET c == cpu_from_line(SliceFrom(line, OFFSET))
         IN Res(c.panic, [st.val EXCEPT !.total = <<c.val>>])
    ELSE IF StartsWith(line, CpuMarker)
    THEN LET first_space == FindSpace(line)
             num == IF first_space = <<>> THEN <<>>
                    ELSE parse_u64(SubSeq(line, OFFSET + 1, first_space[1]))
             c == IF first_space = <<>> THEN Res(TRUE, <<>>)
                  ELSE cpu_from_line(SliceFrom(line, first_space[1]))
         IN Res(num = <<>> \/ c.panic,
                [st.val EXCEPT !.cores =
                    [k \in DOMAIN st.val.cores \cup {ValOf(num)} |->
                        IF k = ValOf(num) THEN c.val ELSE st.val.cores[k]]])
    ELSE st

RECURSIVE CpuReadLines(_, _)
CpuReadLines(st, lines) ==
    IF lines = <<>> THEN st
    ELSE CpuReadLines(CpuReadLine(st, Head(lines)), Tail(lines))

\* Stat::read of cpu.rs on a table that could be opened
cpu_read(text) == CpuReadLines(Res(FALSE, [total |-> <<>>, cores |-> <<>>]), text)

\* CPU::diff of cpu.rs: ten unguarded u64 subtractions
cpu_diff(self, other, checks) ==
    Res(\E f \in CpuFields : SubU64(self[f], other[f], checks).panic,
        [f \in CpuFields |-> SubU64(self[f], other[f], checks).val])

\* load_since had each core been diffed the wrong way round
cpu_load_since_reversed(self, earlier, checks) ==
    LET both == self.total # <<>> /\ earlier.total # <<>>
        t == IF both THEN cpu_diff(self.total[1], earlier.total[1], checks)
             ELSE Res(FALSE, <<>>)
        ks == CommonCores(self, earlier)
    IN Res(t.panic \/ \E k \in ks : cpu_diff(earlier.cores[k], self.cores[k], checks).panic,
           [total |-> IF both THEN <<t.val>> ELSE <<>>,
            cores |-> [k \in ks |-> cpu_diff(earlier.cores[k], self.cores[k], checks).val]])

\* Stat::load_since of cpu.rs
cpu_load_since(self, earlier, checks) ==
    LET both == self.total # <<>> /\ earlier.total # <<>>
        t == IF both THEN cpu_diff(self.total[1], earlier.total[1], checks)
             ELSE Res(FALSE, <<>>)
        ks == CommonCores(self, earlier)
    IN Res(t.panic \/ \E k \in ks : cpu_diff(self.cores[k], earlier.cores[k], checks).panic,
           [total |-> IF both THEN <<t.val>> ELSE <<>>,
            cores |-> [k \in ks |-> cpu_diff(self.cores[k], earlier.cores[k], checks).val]])

\* CPU::idle_time
idle_time(c, checks) == AddU64(c.idle, c.iowait, checks)

\* CPU::user_time
user_time(c, checks) == AddU64(c.user, c.nice, checks)

\* CPU::system_time
system_time(c, checks) ==
    LET si == AddU64(c.system, c.irq, checks)
        sis == AddU64(si.val, c.softirq, checks)
    IN Res(si.panic \/ sis.panic, sis.val)

\* busy_time had guest time been counted once more
busy_time_with_guest(c, checks) ==
    LET u == user_time(c, checks)
        s == system_time(c, checks)
        us == AddU64(u.val, s.val, checks)
        b == AddU64(us.val, c.steal, checks)
        g == AddU64(b.val, c.guest, checks)
    IN Res(u.panic \/ s.panic \/ us.panic \/ b.panic \/ g.panic, g.val)

\* CPU::busy_time
busy_time(c, checks) ==
    LET u == user_time(c, checks)
        s == system_time(c, checks)
        us == AddU64(u.val, s.val, checks)
        b == AddU64(us.val, c.steal, checks)
    IN Res(u.panic \/ s.panic \/ us.panic \/ b.panic, b.val)

\* CPU::total_time
total_time(c, checks) ==
    LET b == busy_time(c, checks)
        i == idle_time(c, checks)
        t == AddU64(b.val, i.val, checks)
    IN Res(b.panic \/ i.panic \/ t.panic, t.val)

\* the lines a table is read with besides the kernel's own: none, or one cpu
\* line that is short, has a field that is no number, has an index that is
\* no number, or has no space at all
ShortLine == CpuMarker \o <<"3", " ", "1", " ", "2", " ", "3">>
BadFieldLine == CpuMarker \o <<"3", " ", "1", " ", "x", " ", "3", " ", "4", " ", "5", " ",
                               "6", " ", "7", " ", "8", " ", "9", " ", "1", "0">>
BadIndexLine == CpuMarker \o <<"x", " ", "1", " ", "2", " ", "3", " ", "4", " ", "5", " ",
                               "6", " ", "7", " ", "8", " ", "9", " ", "1", "0">>
NoSpaceLine == CpuMarker \o <<"3">>
MalformedLines == {ShortLine, BadFieldLine, BadIndexLine, NoSpaceLine}

\* a file the library reads: the kernel's table and, after the aggregate
\* line, the extra lines
CpuFiles == [table : KernelTables, extra : {<<>>} \cup {<<l>> : l \in MalformedLines}]

CpuFileText(file) ==
    <<TotalLine(file.table.total[1])>>
    \o file.extra
    \o CoreLines(SortedKeys(DOMAIN file.table.cores), file.table.cores)
    \o <<IntrLine>>

\* Stat::read of cpu.rs on each file of CpuFiles, evaluated once per file
CpuReadOfFile == [file \in CpuFiles |-> cpu_read(CpuFileText(file))]

Epoch == [secs |-> 0, nanos |-> 0]

\* Stat::read on each table of KernelTables, evaluated once per table
ReadOfTable == [table \in KernelTables |-> read(ProcStatText(table), Epoch)]

\* Stat::read of main.rs on `table`, at instant t
ReadAt(table, t) ==
    Res(ReadOfTable[table].panic, [ReadOfTable[table].val EXCEPT !.time = t])

\* ------------------------------------------------------------------ state
VARIABLES
    user_hz,          \* sysconf(_SC_CLK_TCK), read once before the loop
    overflow_checks,  \* the build: integer overflow panics (TRUE) or wraps
    saturating_cast,  \* the build: float-to-integer casts saturate, or are unspecified
    pc,               \* "running", or "panicked" once the process has aborted
    clock,            \* the monotonic clock
    ticks,            \* iterations of the loop begun so far
    stat,             \* main's `stat`: Option<Stat>
    old,              \* main's `old` of the latest iteration: Option<Stat>
    load,             \* the Load of the latest iteration, if it was computed
    dticks,           \* duration_ticks of the latest iteration, if it was computed
    row,              \* the glyphs of the latest iteration: Option<[panic, val]>
    src,              \* history: the kernel table behind `stat`, as an Option
    statTick,         \* history: the iteration that read `stat` (0: none)
    oldTick,          \* history: the iteration that read `old` (0: none)
    acquired,         \* history: per iteration, whether Stat::read returned Ok
    rendered,         \* history: per iteration, whether the rendering arm ran, on which snapshots
    cpuNow,           \* cpu.rs: the Stat read last, as an Option
    cpuOld,           \* cpu.rs: the Stat read before it, as an Option
    cpuLoad,          \* cpu.rs: the result of the latest load_since, as an Option
    cpuSums,          \* cpu.rs: the derived sums of the latest Load's total, as an Option
    cpuPc,            \* cpu.rs: "running" or "panicked"
    cpuSrc,           \* history: the lines behind cpuNow
    cpuOldSrc         \* history: the lines behind cpuOld

mainVars == <<user_hz, overflow_checks, saturating_cast, pc, clock, ticks, stat, old,
              load, dticks, row, src, statTick, oldTick, acquired, rendered>>
cpuVars == <<cpuNow, cpuOld, cpuLoad, cpuSums, cpuPc, cpuSrc, cpuOldSrc>>
vars == <<mainVars, cpuVars>>

UserHzValues == {100, 250}

\* time between two iterations: the sleep of `interval` ms and the work
DurationChoices ==
    { [secs |-> 0, nanos |-> 5000000],
      [secs |-> 0, nanos |-> 20000000],
      [secs |-> 1, nanos |-> 125000000] }

\* values an unspecified float-to-integer cast is given in the model
UnspecCastValues == {0, FormatLen - 1, USizeMax}

Init ==
    /\ user_hz \in UserHzValues
    /\ overflow_checks \in BOOLEAN
    /\ saturating_cast \in BOOLEAN
    /\ pc = "running"
    /\ clock = Epoch
    /\ ticks = 0
    /\ stat = <<>>
    /\ old = <<>>
    /\ load = <<>>
    /\ dticks = <<>>
    /\ row = <<>>
    /\ src = <<>>
    /\ statTick = 0
    /\ oldTick = 0
    /\ acquired = <<>>
    /\ rendered = <<>>
    /\ cpuNow = <<>>
    /\ cpuOld = <<>>
    /\ cpuLoad = <<>>
    /\ cpuSums = <<>>
    /\ cpuPc = "running"
    /\ cpuSrc = <<>>
    /\ cpuOldSrc = <<>>

NotRendered == [ran |-> FALSE, newer |-> 0, older |-> 0]

\* the part of an iteration that is the same whatever Stat::read returned
Step(d, ok) ==
    /\ clock' = InstantAdd(clock, d)
    /\ ticks' = ticks + 1
    /\ old' = stat
    /\ oldTick' = statTick
    /\ acquired' = Append(acquired, ok)
    /\ UNCHANGED <<user_hz, overflow_checks, saturating_cast, cpuVars>>

\* TickReadErr had the loop kept the last snapshot when Stat::read fails
TickReadErrKeepsStat ==
    /\ pc = "running"
    /\ ticks < MaxTicks
    /\ \E d \in DurationChoices :
        /\ Step(d, FALSE)
        /\ UNCHANGED <<stat, src, statTick>>
        /\ load' = <<>>
        /\ dticks' = <<>>
        /\ row' = <<>>
        /\ rendered' = Append(rendered, NotRendered)
        /\ pc' = "running"

\* one iteration of the loop in which Stat::read returns Err: `stat` becomes
\* None and the match falls to its `_ => ()` arm
TickReadErr ==
    /\ pc = "running"
    /\ ticks < MaxTicks
    /\ \E d \in DurationChoices :
        /\ Step(d, FALSE)
        /\ stat' = <<>>
        /\ src' = <<>>
        /\ statTick' = 0
        /\ load' = <<>>
        /\ dticks' = <<>>
        /\ row' = <<>>
        /\ rendered' = Append(rendered, NotRendered)
        /\ pc' = "running"

\* the (Some(now), Some(old)) arm: load_since, duration_ticks, the row
Render(now, prev, unspec) ==
    LET l == load_since(now, prev, overflow_checks)
        t == duration_ticks(l.val.duration, user_hz, overflow_checks)
        r == render_row(SortedKeys(DOMAIN l.val.cores), l.val.cores, t.val,
                        overflow_checks, saturating_cast, unspec, <<>>)
    IN IF l.panic THEN [panic |-> TRUE, load |-> <<>>, dticks |-> <<>>, row |-> <<>>]
       ELSE IF t.panic
       THEN [panic |-> TRUE, load |-> <<l.val>>, dticks |-> <<>>, row |-> <<>>]
       ELSE [panic |-> r.panic, load |-> <<l.val>>, dticks |-> <<t.val>>, row |-> <<r>>]

\* one iteration of the loop in which Stat::read opens and reads the table
TickReadOk ==
    /\ pc = "running"
    /\ ticks < MaxTicks
    /\ \E d \in DurationChoices, table \in KernelTables,
          unspec \in (IF saturating_cast THEN {0} ELSE UnspecCastValues) :
        LET r == ReadAt(table, InstantAdd(clock, d))
        IN /\ Step(d, ~r.panic)
           /\ src' = <<table>>
           /\ statTick' = ticks + 1
           /\ IF r.panic
              THEN /\ stat' = stat
                   /\ load' = <<>> /\ dticks' = <<>> /\ row' = <<>>
                   /\ rendered' = Append(rendered, NotRendered)
                   /\ pc' = "panicked"
              ELSE /\ stat' = <<r.val>>
                   /\ IF stat = <<>>
                      THEN /\ load' = <<>> /\ dticks' = <<>> /\ row' = <<>>
                           /\ rendered' = Append(rendered, NotRendered)
                           /\ pc' = "running"
                      ELSE LET out == Render(r.val, stat[1], unspec)
                           IN /\ load' = out.load
                              /\ dticks' = out.dticks
                              /\ row' = out.row
                              /\ rendered' = Append(rendered,
                                    [ran |-> TRUE, newer |-> ticks + 1, older |-> statTick])
                              /\ pc' = IF out.panic THEN "panicked" ELSE "running"

Next == TickReadErr \/ TickReadOk

Spec == Init /\ [][Next]_vars

\* a caller of cpu.rs reads a file: the Stat read before moves to cpuOld
CpuRead ==
    /\ cpuPc = "running"
    /\ \E file \in CpuFiles :
        LET r == CpuReadOfFile[file]
        IN /\ cpuSrc' = <<file>>
           /\ cpuOldSrc' = cpuSrc
           /\ cpuOld' = cpuNow
           /\ cpuNow' = IF r.panic THEN <<>> ELSE <<r.val>>
           /\ cpuPc' = IF r.panic THEN "panicked" ELSE "running"
           /\ cpuLoad' = <<>>
           /\ cpuSums' = <<>>
    /\ UNCHANGED mainVars

\* a caller of cpu.rs takes the Load between the two Stats it holds
CpuLoadSince ==
    /\ cpuPc = "running"
    /\ cpuNow # <<>> /\ cpuOld # <<>> /\ cpuLoad = <<>>
    /\ LET l == cpu_load_since(cpuNow[1], cpuOld[1], overflow_checks)
       IN /\ cpuLoad' = IF l.panic THEN <<>> ELSE <<l.val>>
          /\ cpuPc' = IF l.panic THEN "panicked" ELSE "running"
    /\ UNCHANGED <<cpuNow, cpuOld, cpuSums, cpuSrc, cpuOldSrc, mainVars>>

\* the CPU of a Load that `which` names: <<>> the aggregate, <<k>> core k
CpuOf(l, which) == IF which = <<>> THEN l.total[1] ELSE l.cores[which[1]]

\* a caller of cpu.rs takes the derived times of one CPU of the Load
CpuTimes ==
    /\ cpuPc = "running"
    /\ cpuLoad # <<>>
    /\ \E which \in {<<>>} \cup {<<k>> : k \in DOMAIN cpuLoad[1].cores} :
        /\ which = <<>> => cpuLoad[1].total # <<>>
        /\ LET c == CpuOf(cpuLoad[1], which)
               i == idle_time(c, overflow_checks)
               u == user_time(c, overflow_checks)
               s == system_time(c, overflow_checks)
               b == busy_time(c, overflow_checks)
               t == total_time(c, overflow_checks)
           IN /\ cpuSums' = <<[of |-> which, idle_time |-> i.val, user_time |-> u.val,
                               system_time |-> s.val, busy_time |-> b.val,
                               total_time |-> t.val]>>
              /\ cpuPc' = IF i.panic \/ u.panic \/ s.panic \/ b.panic \/ t.panic
                          THEN "panicked" ELSE "running"
    /\ UNCHANGED <<cpuNow, cpuOld, cpuLoad, cpuSrc, cpuOldSrc, mainVars>>

NextCpu == CpuRead \/ CpuLoadSince \/ CpuTimes

SpecCpu == Init /\ [][NextCpu]_vars

\* ------------------------------------------------------------------ claims
Iterations == 1..Len(acquired)

\* an iteration whose acquisition failed between two that succeeded
FailedBetween(k) ==
    /\ k - 1 \in Iterations /\ k + 1 \in Iterations
    /\ acquired[k - 1] /\ ~acquired[k] /\ acquired[k + 1]

\* C1, as claimed: when acquisition fails on iteration k alone, between two
\* successes, nothing is rendered on k, the snapshot of k-1 is still held
\* after k, and iteration k+1 renders a row diffing k+1 against k-1.
C1_RetainedAcrossFailure ==
    /\ \A k \in Iterations :
          FailedBetween(k) =>
              /\ ~rendered[k].ran
              /\ rendered[k + 1].ran
              /\ rendered[k + 1].newer = k + 1
              /\ rendered[k + 1].older = k - 1
    /\ (ticks >= 2 /\ acquired[ticks - 1] /\ ~acquired[ticks]) =>
          (stat # <<>> /\ statTick = ticks - 1)

\* C1, amended: when acquisition fails on iteration k alone, between two
\* successes, nothing is rendered on k, the failure leaves no snapshot held
\* (stat is None), nothing is rendered on k+1 either, and an iteration k+2
\* whose acquisition succeeds renders a row diffing k+2 against k+1.
C1_DroppedAcrossFailure ==
    /\ \A k \in Iterations :
          FailedBetween(k) =>
              /\ ~rendered[k].ran
              /\ ~rendered[k + 1].ran
              /\ (k + 2 \in Iterations /\ acquired[k + 2]) =>
                    /\ rendered[k + 2].ran
                    /\ rendered[k + 2].newer = k + 2
                    /\ rendered[k + 2].older = k + 1
    /\ (ticks >= 1 /\ ~acquired[ticks]) => (stat = <<>> /\ statTick = 0)

C1_Witness ==
    /\ ticks >= 4
    /\ FailedBetween(2)
    /\ acquired[4]
    /\ rendered[4].ran

\* C10: the rendering arm of the loop runs on an iteration if and only if
\* acquisition succeeded on that iteration and on the one immediately before
\* it (so never on the first), and it then diffs the snapshots of exactly
\* these two consecutive iterations.
C10_RendersIffConsecutive ==
    \A k \in Iterations :
        /\ rendered[k].ran <=> (acquired[k] /\ k > 1 /\ acquired[k - 1])
        /\ rendered[k].ran => (rendered[k].newer = k /\ rendered[k].older = k - 1)

C10_Witness ==
    /\ ticks >= 3
    /\ ~rendered[1].ran
    /\ \E k \in Iterations : rendered[k].ran /\ row # <<>> /\ ~row[1].panic
    /\ \E k \in Iterations : k > 1 /\ acquired[k] /\ ~acquired[k - 1] /\ ~rendered[k].ran

\* the glyphs whose used-tick sum was computed
Glyphs == IF row = <<>> THEN {} ELSE {row[1].val[i] : i \in 1..Len(row[1].val)}

\* C3, as claimed: every fraction a glyph is chosen from lies in [0, 1] and
\* every palette index is one of the 8 entries of FORMAT (stated here for a
\* positive duration_ticks; a duration_ticks of 0 is the case of C4).
C3_FractionClamped ==
    \A g \in Glyphs :
        (g.summed /\ g.ticks > 0) =>
            /\ g.part.kind = "finite"
            /\ g.part.num <= g.part.den
            /\ g.index \in 0..(FormatLen - 1)

\* C4, as claimed: when duration_ticks is 0, every core's fraction is 0.0
\* (no NaN, no infinity) and its palette index is 0.
C4_ZeroTicksFallback ==
    dticks = <<0>> =>
        \A g \in Glyphs :
            g.summed => (g.part.kind = "finite" /\ g.part.num = 0 /\ g.index = 0)

\* C5, as claimed: the snapshot holds, under each core index N of the table,
\* the first four fields of the line of core N, in their order.
C5_FieldsInOrder ==
    (stat # <<>> /\ src # <<>> /\ pc = "running") =>
        /\ DOMAIN stat[1].cores = DOMAIN src[1].cores
        /\ \A n \in DOMAIN src[1].cores :
              stat[1].cores[n] = [user |-> src[1].cores[n][1],
                                  nice |-> src[1].cores[n][2],
                                  system |-> src[1].cores[n][3],
                                  idle |-> src[1].cores[n][4]]

\* the nearest integer to num / den (halves away from zero), and the largest
\* integer not above it
RoundRatio(num, den) == CHOOSE n \in 0..(num + 1) : 2 * n * den - den <= 2 * num /\ 2 * num < 2 * n * den + den
FloorRatio(num, den) == CHOOSE n \in 0..num : n * den <= num /\ num < (n + 1) * den

\* the sub-second part of a duration times the rate, as a ratio in lowest terms
SubsecNum(nanos, hz) == (nanos \div Gcd(nanos, NanosPerSec)) * hz
SubsecDen(nanos) == NanosPerSec \div Gcd(nanos, NanosPerSec)

\* used ticks of core k of the latest Load
UsedOf(k) == (load[1].cores[k].user + load[1].cores[k].nice + load[1].cores[k].system) % Modulus

\* the fraction of every glyph is its core's used ticks over duration_ticks
FractionIsUsedOverTicks ==
    \A g \in Glyphs :
        g.summed =>
            /\ g.used = UsedOf(g.core)
            /\ g.part = IF dticks[1] # 0
                        THEN [kind |-> "finite", num |-> UsedOf(g.core), den |-> dticks[1]]
                        ELSE IF UsedOf(g.core) # 0 THEN [kind |-> "inf", num |-> 1, den |-> 0]
                        ELSE [kind |-> "nan", num |-> 0, den |-> 0]

\* C8, as claimed: duration_ticks is duration_seconds * ticks_per_second
\* rounded to the nearest integer, and each fraction is used / duration_ticks.
C8_TicksRounded ==
    dticks # <<>> =>
        /\ dticks[1] = load[1].duration.secs * user_hz
              + RoundRatio(SubsecNum(load[1].duration.nanos, user_hz),
                           SubsecDen(load[1].duration.nanos))
        /\ FractionIsUsedOverTicks

\* C8, amended: duration_ticks is whole seconds * ticks_per_second plus the
\* sub-second product truncated toward zero, and each fraction is the
\* floating-point quotient used / duration_ticks (infinite or NaN when
\* duration_ticks is 0).
C8_TicksTruncated ==
    dticks # <<>> =>
        /\ dticks[1] = load[1].duration.secs * user_hz
              + FloorRatio(SubsecNum(load[1].duration.nanos, user_hz),
                           SubsecDen(load[1].duration.nanos))
        /\ FractionIsUsedOverTicks

C8_Witness ==
    /\ dticks = <<112>>
    /\ user_hz = 100
    /\ load[1].duration = [secs |-> 1, nanos |-> 125000000]
    /\ \E g \in Glyphs : g.summed /\ g.used > 0 /\ g.part.kind = "finite"

\* the latest load_since of cpu.rs panicked
CpuLoadPanicked == cpuPc = "panicked" /\ cpuNow # <<>> /\ cpuOld # <<>> /\ cpuLoad = <<>>

\* some counter of `newer` is below the same counter of `older`
Decreased(newer, older) == \E f \in CpuFields : newer[f] < older[f]

CpuCommon == DOMAIN cpuNow[1].cores \cap DOMAIN cpuOld[1].cores

\* C2, as claimed: when a counter of a core is lower in the newer reading,
\* load_since does not panic and the Load has no entry for that core (so no
\* wrapped delta either).
C2_DecreaseMakesCoreUnavailable ==
    (cpuNow # <<>> /\ cpuOld # <<>>) =>
        \A k \in CpuCommon :
            Decreased(cpuNow[1].cores[k], cpuOld[1].cores[k]) =>
                /\ ~CpuLoadPanicked
                /\ cpuLoad # <<>> => k \notin DOMAIN cpuLoad[1].cores

\* the cores of the kernel table of a file, as cpu.rs is to store them
ExpectedCores(file) ==
    [k \in DOMAIN file.table.cores |->
        [user |-> file.table.cores[k][1], nice |-> file.table.cores[k][2],
         system |-> file.table.cores[k][3], idle |-> file.table.cores[k][4],
         iowait |-> file.table.cores[k][5], irq |-> file.table.cores[k][6],
         softirq |-> file.table.cores[k][7], steal |-> file.table.cores[k][8],
         guest |-> file.table.cores[k][9], guest_nice |-> file.table.cores[k][10]]]

\* C6, as claimed: reading a table that holds a malformed cpu line does not
\* crash; the line is skipped, and the snapshot holds exactly the cores of
\* the well-formed lines, with their fields.
C6_MalformedLineSkipped ==
    (cpuSrc # <<>> /\ cpuSrc[1].extra # <<>>) =>
        /\ cpuPc # "panicked"
        /\ cpuNow # <<>>
        /\ cpuNow[1].cores = ExpectedCores(cpuSrc[1])

\* the field-wise difference modulo the word, written out
WrappedDelta(newer, older) ==
    [f \in CpuFields |-> IF newer[f] >= older[f] THEN newer[f] - older[f]
                         ELSE Modulus - (older[f] - newer[f])]

\* C7: the cores of load_since(current, previous) are exactly the cores that
\* both snapshots hold, each entry is the diff of the core's two readings,
\* and a core held by one snapshot alone is left out without an error:
\* load_since panics only where a diff of a shared reading does.
C7_LoadCoresAreIntersection ==
    /\ cpuLoad # <<>> =>
          /\ DOMAIN cpuLoad[1].cores = CpuCommon
          /\ \A k \in CpuCommon :
                cpuLoad[1].cores[k] = WrappedDelta(cpuNow[1].cores[k], cpuOld[1].cores[k])
    /\ CpuLoadPanicked =>
          /\ overflow_checks
          /\ \/ \E k \in CpuCommon : Decreased(cpuNow[1].cores[k], cpuOld[1].cores[k])
             \/ /\ cpuNow[1].total # <<>> /\ cpuOld[1].total # <<>>
                /\ Decreased(cpuNow[1].total[1], cpuOld[1].total[1])

C7_Witness ==
    /\ cpuLoad # <<>>
    /\ CpuCommon # {}
    /\ DOMAIN cpuOld[1].cores \ DOMAIN cpuNow[1].cores # {}
    /\ DOMAIN cpuNow[1].cores \ DOMAIN cpuOld[1].cores # {}

\* C9: for two readings with newer >= older in every field, every field of
\* the diff is newer - older and is not negative, busy_time is
\* user + nice + system + irq + softirq + steal, idle_time is idle + iowait,
\* and busy_time + idle_time = total_time.
C9_DiffAndDerivedSums ==
    cpuSums # <<>> =>
        LET newer == CpuOf(cpuNow[1], cpuSums[1].of)
            older == CpuOf(cpuOld[1], cpuSums[1].of)
            d == CpuOf(cpuLoad[1], cpuSums[1].of)
        IN (\A f \in CpuFields : newer[f] >= older[f]) =>
              /\ cpuPc = "running"
              /\ \A f \in CpuFields : d[f] = newer[f] - older[f] /\ d[f] >= 0
              /\ cpuSums[1].busy_time =
                    d.user + d.nice + d.system + d.irq + d.softirq + d.steal
              /\ cpuSums[1].idle_time = d.idle + d.iowait
              /\ cpuSums[1].busy_time + cpuSums[1].idle_time = cpuSums[1].total_time

C9_Witness ==
    /\ cpuSums # <<>>
    /\ LET newer == CpuOf(cpuNow[1], cpuSums[1].of)
           older == CpuOf(cpuOld[1], cpuSums[1].of)
           d == CpuOf(cpuLoad[1], cpuSums[1].of)
       IN /\ \A f \in CpuFields : newer[f] >= older[f]
          /\ d.guest > 0 /\ d.guest_nice > 0 /\ d.steal > 0 /\ d.irq > 0
          /\ d.softirq > 0 /\ d.iowait > 0
          /\ cpuSums[1].busy_time > 0 /\ cpuSums[1].idle_time > 0

====
